---- MODULE Spec2Model ----
(***************************************************************************)
(* Model of src/234235.py: main's collect-then-process loop, process_entry *)
(* (URL dispatch and the search branch), the provider adapters,            *)
(* robust_get's retry loop, download_direct and convert_to_mp3.            *)
(*                                                                         *)
(* Strings are sequences of tokens ("https://", "spotify.com", "/", ...):  *)
(* startswith looks at the first token, "in" at any token, split("/") at   *)
(* the tokens that end with a slash.                                       *)
(***************************************************************************)
EXTENDS Integers, Sequences, FiniteSets, TLC

\* ----- bounds -----------------------------------------------------------
MaxQueries == 2
MaxAttempts == 3

\* ----- strings ----------------------------------------------------------
Schemes == {"http://", "https://"}

LowerTok(t) ==
  CASE t = "QUIT" -> "quit"
    [] t = "Album" -> "album"
    [] t = "PLAYLIST" -> "playlist"
    [] t = ".MP3" -> ".mp3"
    [] OTHER -> t

Lower(s) == [i \in 1..Len(s) |-> LowerTok(s[i])]

StartsWith(s, t) == Len(s) >= 1 /\ s[1] = t

Contains(s, t) == \E i \in 1..Len(s) : s[i] = t

EndsWith(s, t) == Len(s) >= 1 /\ s[Len(s)] = t

EndsWithSlash(t) == t \in Schemes \cup {"/"}

\* url.split("/")[-1]: the text after the last slash
LastSegment(s) ==
  LET slashes == {i \in 1..Len(s) : EndsWithSlash(s[i])}
      last == IF slashes = {} THEN 0
              ELSE CHOOSE i \in slashes : \A j \in slashes : j <= i
  IN SubSeq(s, last + 1, Len(s))

IsExt(t) == t \in {".wav", ".mp3", ".MP3"}

\* os.path.join(a, b) for a relative b
PathJoin(a, b) == IF a = <<>> THEN b
                  ELSE IF EndsWith(a, "/") THEN a \o b
                  ELSE a \o <<"/">> \o b

\* os.path.basename(p)
Basename(p) == LastSegment(p)

\* os.path.splitext(name)[0]: a leading dot does not start an extension
SplitextRoot(name) ==
  IF Len(name) >= 2 /\ IsExt(name[Len(name)])
    THEN SubSeq(name, 1, Len(name) - 1)
    ELSE name

\* ----- inputs -----------------------------------------------------------
Blank == <<>>

Entries ==
  { Blank,
    <<"quit">>,
    <<"QUIT">>,
    <<"https://", "spotify.com", "/", "track">>,
    <<"http://", "tidal.com", "/", "track">>,
    <<"https://", "example.com", "/", "audio", "/", "talk42", ".wav">>,
    <<"https://", "tidal.com", "/", "spotify.com">>,
    <<"https://", "youtu.be", "/", "tidal.com">>,
    <<"https://", "example.com", "/", "v", "?u=", "youtube.com">>,
    <<"https://", "example.com", "/", "talk42", ".MP3">>,
    <<"https://", "example.com", "/">>,
    <<"lecture">>,
    <<"Intro", "Album">>,
    <<"spotify.com", "/", "track">> }

DirInputs == { Blank, <<"/tmp/out">> }

Systems == {"Windows", "Linux"}

\* ----- program constants ------------------------------------------------
\* what one requests.get call can do: answer with a status code, or raise a
\* transport error (a RequestException), written TransportError
TransportError == 0

Responses == {TransportError, 200, 404, 429}

VARIABLES
  pc,                \* position of the program
  entry,             \* main: the entry read last
  queries,           \* main: the collected entries
  idx,               \* main: index of the entry being processed
  output_directory,  \* main: destination directory
  query,             \* process_entry: the entry being processed
  branches,          \* the branch process_entry took for each entry so far
  invoked,           \* adapters called for the current entry, in call order
  results,           \* how each called adapter ended: "ok", "failed", "absent"
  outcome,           \* how process_entry ended for the current entry
  raised,            \* [by, err] of the exception that ended it, or NoErr
  printed,           \* terminal_output lines of the current entry
  absent,            \* tools shutil.which did not find for the current entry
  backoff,           \* robust_get: backoff
  attempts,          \* robust_get: number of requests.get calls
  sleeps,            \* robust_get: the durations slept, in order
  responses,         \* robust_get: what requests.get answered, in order
  downloaded_file,   \* process_entry: path returned by download_direct
  mp3_file,          \* process_entry: path returned by convert_to_mp3
  converts           \* ffmpeg runs for the current entry: <<input, output>>

mainVars == <<entry, queries, idx, output_directory>>
fetchVars == <<backoff, attempts, sleeps, responses>>
fileVars == <<downloaded_file, mp3_file, converts>>
reqVars == <<query, branches>>
vars == <<pc, entry, queries, idx, output_directory, query, branches, invoked, results, outcome, raised,
          printed, absent, backoff, attempts, sleeps, responses,
          downloaded_file, mp3_file, converts>>

NoErr == [by |-> "none", err |-> "none"]
NoPath == <<"?">>
NoEntry == <<"?">>

\* ----- helpers that model code fragments ---------------------------------
\* variant of IsUrl: a provider domain is enough, with or without a scheme
IsUrlLoose(q) ==
  StartsWith(q, "http://") \/ StartsWith(q, "https://") \/ Contains(q, "spotify.com")

\* line 109
IsUrl(q) == StartsWith(q, "http://") \/ StartsWith(q, "https://")

\* variant of UrlProvider: the tidal.com test comes first
UrlProviderTidalFirst(q) ==
  IF Contains(q, "tidal.com") THEN "Tidal"
  ELSE IF Contains(q, "spotify.com") THEN "Spotify"
  ELSE IF Contains(q, "youtube.com") \/ Contains(q, "youtu.be") THEN "YouTube"
  ELSE "DirectHttp"

\* lines 110-119: the if / elif chain of the URL branch
UrlProvider(q) ==
  IF Contains(q, "spotify.com") THEN "Spotify"
  ELSE IF Contains(q, "tidal.com") THEN "Tidal"
  ELSE IF Contains(q, "youtube.com") \/ Contains(q, "youtu.be") THEN "YouTube"
  ELSE "DirectHttp"

AdapterPc(p) ==
  CASE p = "Spotify" -> "download_from_spotify"
    [] p = "Tidal" -> "download_from_tidal"
    [] p = "YouTube" -> "download_from_youtube"
    [] p = "DirectHttp" -> "robust_get"

\* variant of FreshBackoff: the backoff the last call left is kept
FreshBackoffKept(previous) == previous

\* line 29: backoff is a local of robust_get, set at every call whatever the
\* last call left
FreshBackoff(previous) == 1

\* variant of NextBackoff: the doubling is left out
NextBackoffKept(b) == b

\* line 36 and line 43
NextBackoff(b) == b * 2

\* line 33
RateLimited(r) == r = 429

\* line 38: raise_for_status raises HTTPError for 4xx and 5xx
RaiseForStatus(r) == r >= 400 /\ r < 600

\* variant of CaughtByRobustGet: transport errors are let through
CaughtByRobustGetHttpOnly(e) == e = "HTTPError"

\* line 40: what the except clause of robust_get catches
CaughtByRobustGet(e) == e \in {"ConnectionError", "HTTPError"}

\* variant of LocalFilename: no generic name for an empty segment
LocalFilenameNoFallback(url) == LastSegment(url)

\* line 52
LocalFilename(url) ==
  IF LastSegment(url) = <<>> THEN <<"downloaded_file">> ELSE LastSegment(url)

\* line 53
LocalFilepath(url, dir) == PathJoin(dir, LocalFilename(url))

\* lines 65-66
OutputFile(input_file, dir) ==
  PathJoin(dir, SplitextRoot(Basename(input_file)) \o <<".mp3">>)

\* variant of NeedsConversion: the name is compared as it is spelled
NeedsConversionCaseSensitive(path) == ~EndsWith(path, ".mp3")

\* line 123
NeedsConversion(path) == ~EndsWith(Lower(path), ".mp3")

\* lines 45-49
DefaultDownloadDirectory(system) ==
  IF system \in {"Windows", "Darwin"} THEN <<"~", "/", "Downloads">> ELSE <<".">>

\* ----- initial state ----------------------------------------------------
Init ==
  /\ pc = "check_ffmpeg"
  /\ entry = NoEntry
  /\ queries = <<>>
  /\ idx = 0
  /\ output_directory = Blank
  /\ query = Blank
  /\ branches = <<>>
  /\ invoked = <<>>
  /\ results = <<>>
  /\ outcome = "none"
  /\ raised = NoErr
  /\ printed = <<>>
  /\ absent = {}
  /\ backoff = 1
  /\ attempts = 0
  /\ sleeps = <<>>
  /\ responses = <<>>
  /\ downloaded_file = NoPath
  /\ mp3_file = NoPath
  /\ converts = <<>>

\* ----- how a call ends ---------------------------------------------------
\* variant of Raise: main goes on with the next entry
RaiseContinues(by, err) ==
  /\ pc' = "for"
  /\ outcome' = IF err = "SystemExit" THEN "exit" ELSE "raised"
  /\ raised' = [by |-> by, err |-> err]

\* an exception nobody catches leaves process_entry and main; SystemExit
\* ends the interpreter with status 1, anything else with a traceback
Raise(by, err) ==
  /\ pc' = IF err = "SystemExit" THEN "exited" ELSE "crashed"
  /\ outcome' = IF err = "SystemExit" THEN "exit" ELSE "raised"
  /\ raised' = [by |-> by, err |-> err]

\* process_entry returns to the for loop of main
Return ==
  /\ pc' = "for"
  /\ outcome' = "returned"
  /\ raised' = raised

\* variants of AdapterRaises: go on to another provider, call the same
\* adapter again, or return as if nothing had failed
AdapterRaisesFallback(by, err) ==
  /\ pc' = "download_from_youtube"
  /\ invoked' = Append(invoked, "YouTube")
  /\ UNCHANGED <<outcome, raised>>

AdapterRaisesRetry(by, err) ==
  /\ pc' = pc
  /\ invoked' = Append(invoked, invoked[Len(invoked)])
  /\ UNCHANGED <<outcome, raised>>

AdapterRaisesSwallowed(by, err) ==
  /\ Return
  /\ invoked' = invoked

\* lines 109-128: the calls of the URL branch are not inside a try, so an
\* exception raised by the adapter (or by convert_to_mp3) leaves process_entry
\* at once: nothing else is called for this entry
AdapterRaises(by, err) ==
  /\ Raise(by, err)
  /\ invoked' = invoked

\* lines 112-128: after the adapter returns, process_entry falls off its end
AdapterReturns ==
  /\ Return
  /\ invoked' = invoked

\* ----- main --------------------------------------------------------------
\* variant of CheckFfmpegInstalled: the error is printed, main goes on
CheckFfmpegInstalledNoExit ==
  /\ pc = "check_ffmpeg"
  /\ \E present \in BOOLEAN :
       IF present
         THEN /\ pc' = "read_directory"
              /\ UNCHANGED <<printed, raised>>
         ELSE /\ pc' = "read_directory"
              /\ printed' = Append(printed, "Error: FFmpeg is not installed")
              /\ raised' = [by |-> "check_ffmpeg_installed", err |-> "SystemExit"]
  /\ UNCHANGED <<mainVars, fetchVars, fileVars, reqVars, invoked, results, outcome, absent>>

\* lines 23-26, called at line 160
CheckFfmpegInstalled ==
  /\ pc = "check_ffmpeg"
  /\ \E present \in BOOLEAN :
       IF present
         THEN /\ pc' = "read_directory"
              /\ UNCHANGED <<printed, raised>>
         ELSE /\ pc' = "exited"
              /\ printed' = Append(printed, "Error: FFmpeg is not installed")
              /\ raised' = [by |-> "check_ffmpeg_installed", err |-> "SystemExit"]
  /\ UNCHANGED <<mainVars, fetchVars, fileVars, reqVars, invoked, results, outcome, absent>>

\* lines 161-164
ReadDirectory ==
  /\ pc = "read_directory"
  /\ \E d \in DirInputs, system \in Systems :
       output_directory' = IF d = Blank THEN DefaultDownloadDirectory(system) ELSE d
  /\ pc' = "collect"
  /\ UNCHANGED <<entry, queries, idx, fetchVars, fileVars, reqVars, invoked, results,
                 outcome, raised, printed, absent>>

\* line 170
EndsCollection(e) == Lower(e) \in {<<"quit">>, Blank}

\* lines 168-172: one pass of the input loop
Collect ==
  /\ pc = "collect"
  /\ \E e \in Entries :
       /\ entry' = e
       /\ IF EndsCollection(e)
            THEN /\ pc' = "for"
                 /\ queries' = queries
            ELSE /\ Len(queries) < MaxQueries
                 /\ pc' = pc
                 /\ queries' = Append(queries, e)
  /\ UNCHANGED <<idx, output_directory, fetchVars, fileVars, reqVars, invoked,
                 results, outcome, raised, printed, absent>>

\* line 173: the for loop has no entry left
MainDone ==
  /\ pc = "for"
  /\ idx = Len(queries)
  /\ pc' = "done"
  /\ UNCHANGED <<mainVars, fetchVars, fileVars, reqVars, invoked, results,
                 outcome, raised, printed, absent>>

\* ----- process_entry -----------------------------------------------------
\* lines 173-174 and 108-130: the for loop takes the next entry and calls
\* process_entry, which either prints "Detected ..." and calls the adapter
\* the if / elif chain selects, or (line 130) calls terminal_output with two
\* positional arguments, which raises TypeError before any provider is tried
ProcessEntry ==
  /\ pc = "for"
  /\ idx < Len(queries)
  /\ idx' = idx + 1
  /\ query' = queries[idx + 1]
  /\ absent' = {}
  /\ backoff' = FreshBackoff(backoff)
  /\ attempts' = 0
  /\ sleeps' = <<>>
  /\ responses' = <<>>
  /\ downloaded_file' = NoPath
  /\ mp3_file' = NoPath
  /\ converts' = <<>>
  /\ results' = <<>>
  /\ IF IsUrl(query')
       THEN /\ branches' = Append(branches, UrlProvider(query'))
            /\ printed' = <<"Detected " \o UrlProvider(query')>>
            /\ invoked' = <<UrlProvider(query')>>
            /\ pc' = AdapterPc(UrlProvider(query'))
            /\ outcome' = "none"
            /\ raised' = NoErr
       ELSE /\ branches' = Append(branches, "search")
            /\ printed' = <<>>
            /\ invoked' = <<>>
            /\ Raise("terminal_output", "TypeError")
  /\ UNCHANGED <<entry, queries, output_directory>>

\* ----- provider adapters --------------------------------------------------
\* lines 88-96
DownloadFromSpotify ==
  /\ pc = "download_from_spotify"
  /\ \E present \in BOOLEAN, ok \in BOOLEAN :
       IF ~present
         THEN /\ absent' = absent \cup {"spotdl"}
              /\ results' = Append(results, "absent")
              /\ printed' = Append(printed, "Error: spotdl is not installed")
              /\ AdapterRaises("download_from_spotify", "SystemExit")
         ELSE /\ absent' = absent
              /\ IF ok
                   THEN /\ printed' = printed
                        /\ results' = Append(results, "ok")
                        /\ AdapterReturns
                   ELSE /\ printed' = Append(printed, "Spotify download failed")
                        /\ results' = Append(results, "failed")
                        /\ AdapterRaises("download_from_spotify", "Exception")
  /\ UNCHANGED <<mainVars, fetchVars, fileVars, reqVars>>

\* lines 98-106
DownloadFromTidal ==
  /\ pc = "download_from_tidal"
  /\ \E present \in BOOLEAN, ok \in BOOLEAN :
       IF ~present
         THEN /\ absent' = absent \cup {"tidal-dl"}
              /\ results' = Append(results, "absent")
              /\ printed' = Append(printed, "Error: tidal-dl is not installed")
              /\ AdapterRaises("download_from_tidal", "SystemExit")
         ELSE /\ absent' = absent
              /\ IF ok
                   THEN /\ printed' = printed
                        /\ results' = Append(results, "ok")
                        /\ AdapterReturns
                   ELSE /\ printed' = Append(printed, "Tidal download failed")
                        /\ results' = Append(results, "failed")
                        /\ AdapterRaises("download_from_tidal", "Exception")
  /\ UNCHANGED <<mainVars, fetchVars, fileVars, reqVars>>

\* lines 74-86: yt_dlp raises DownloadError when the download fails
DownloadFromYoutube ==
  /\ pc = "download_from_youtube"
  /\ \E ok \in BOOLEAN :
       IF ok THEN /\ results' = Append(results, "ok")
                  /\ AdapterReturns
             ELSE /\ results' = Append(results, "failed")
                  /\ AdapterRaises("download_from_youtube", "DownloadError")
  /\ UNCHANGED <<mainVars, fetchVars, fileVars, reqVars, printed, absent>>

\* ----- robust_get ---------------------------------------------------------
\* lines 34-36 and 41-43: print, sleep backoff seconds, double the backoff
SleepAndDouble(msg) ==
  /\ printed' = Append(printed, msg)
  /\ sleeps' = Append(sleeps, backoff)
  /\ backoff' = NextBackoff(backoff)
  /\ pc' = pc
  /\ UNCHANGED <<invoked, results, outcome, raised>>

\* lines 61-62, reached by an exception robust_get lets through
DirectDownloadFailed ==
  /\ printed' = Append(printed, "Direct download failed")
  /\ results' = Append(results, "failed")
  /\ AdapterRaises("download_direct", "Exception")

\* lines 30-43: one pass of the while loop, called from line 55
RobustGet ==
  /\ pc = "robust_get"
  /\ attempts < MaxAttempts
  /\ \E r \in Responses :
       /\ attempts' = attempts + 1
       /\ responses' = Append(responses, r)
       /\ IF r = TransportError
            THEN IF CaughtByRobustGet("ConnectionError")
                   THEN SleepAndDouble("Request error")
                   ELSE DirectDownloadFailed /\ UNCHANGED <<sleeps, backoff>>
          ELSE IF RateLimited(r)
            THEN SleepAndDouble("Rate limited")
          ELSE IF RaiseForStatus(r)
            THEN IF CaughtByRobustGet("HTTPError")
                   THEN SleepAndDouble("Request error")
                   ELSE DirectDownloadFailed /\ UNCHANGED <<sleeps, backoff>>
          ELSE /\ pc' = "download_direct"
               /\ UNCHANGED <<printed, sleeps, backoff, invoked, results, outcome, raised>>
  /\ UNCHANGED <<mainVars, fileVars, reqVars, absent>>

\* ----- download_direct and the rest of the direct branch -------------------
\* lines 55-62 and 121-128: the body is written to local_filepath; an error
\* while opening, reading or writing is re-raised as Exception; on return
\* process_entry prints the path and decides whether to convert
DownloadDirect ==
  /\ pc = "download_direct"
  /\ \E ok \in BOOLEAN :
       IF ok
         THEN /\ downloaded_file' = LocalFilepath(query, output_directory)
              /\ IF NeedsConversion(downloaded_file')
                   THEN /\ printed' = printed \o <<"Downloaded file saved", "Converting to MP3">>
                        /\ pc' = "convert_to_mp3"
                        /\ UNCHANGED <<invoked, results, outcome, raised>>
                   ELSE /\ printed' = printed \o <<"Downloaded file saved", "File is already in MP3 format">>
                        /\ results' = Append(results, "ok")
                        /\ AdapterReturns
         ELSE /\ downloaded_file' = downloaded_file
              /\ DirectDownloadFailed
  /\ UNCHANGED <<mainVars, fetchVars, mp3_file, converts, reqVars, absent>>

\* lines 64-72, called from line 125; line 126 on return
ConvertToMp3 ==
  /\ pc = "convert_to_mp3"
  /\ LET output_file == OutputFile(downloaded_file, output_directory) IN
     /\ converts' = Append(converts, <<downloaded_file, output_file>>)
     /\ \E ok \in BOOLEAN :
          IF ok
            THEN /\ mp3_file' = output_file
                 /\ printed' = Append(printed, "MP3 saved")
                 /\ results' = Append(results, "ok")
                 /\ AdapterReturns
            ELSE /\ mp3_file' = mp3_file
                 /\ printed' = Append(printed, "FFmpeg conversion failed")
                 /\ results' = Append(results, "failed")
                 /\ AdapterRaises("convert_to_mp3", "Exception")
  /\ UNCHANGED <<mainVars, fetchVars, downloaded_file, reqVars, absent>>

\* ----- specification ------------------------------------------------------
Next ==
  \/ CheckFfmpegInstalled
  \/ ReadDirectory
  \/ Collect
  \/ MainDone
  \/ ProcessEntry
  \/ DownloadFromSpotify
  \/ DownloadFromTidal
  \/ DownloadFromYoutube
  \/ RobustGet
  \/ DownloadDirect
  \/ ConvertToMp3

Spec == Init /\ [][Next]_vars

TypeOK ==
  /\ pc \in {"check_ffmpeg", "read_directory", "collect", "for", "done",
             "exited", "crashed", "download_from_spotify", "download_from_tidal",
             "download_from_youtube", "robust_get", "download_direct",
             "convert_to_mp3"}
  /\ idx \in 0..Len(queries)
  /\ Len(branches) = idx
  /\ outcome \in {"none", "returned", "raised", "exit"}
  /\ backoff >= 1
  /\ attempts \in 0..MaxAttempts

\* ----- properties ---------------------------------------------------------
\* lines 131-156: the order in which the search branch names the providers
Chain == <<"Spotify", "Tidal", "YouTube", "SoundCloud">>

\* lines 136, 142, 149, 156: the lines that report a provider's failure
FailureLines == <<"Spotify search failed", "Tidal search failed",
                  "YouTube search failed", "SoundCloud search failed">>

\* an entry has been handed to process_entry and process_entry has ended
Ended == idx > 0 /\ outcome /= "none"

Succeeded == \E i \in 1..Len(results) : results[i] = "ok"

\* C1: for an entry that starts with http:// or https://, exactly one adapter
\* is called, the one the if / elif chain selects; when it does not succeed
\* the entry ends in failure and no other adapter is called.
C1_UrlInvokesExactlyOneProvider ==
  (idx > 0 /\ IsUrl(query)) =>
    /\ Len(invoked) = 1
    /\ invoked[1] = UrlProvider(query)
    /\ Len(results) <= 1
    /\ (results /= <<>> /\ results[1] /= "ok") => outcome \in {"raised", "exit"}

C1_Witness ==
  /\ IsUrl(query)
  /\ invoked = <<"Spotify">>
  /\ results = <<"failed">>
  /\ outcome = "raised"

\* C2: for a search query that has ended, provider k+1 of the chain Spotify,
\* Tidal, YouTube, SoundCloud was called if and only if providers 1..k were
\* all called and all failed (so the first provider is always called), and
\* each failure was reported.
C2_SearchFallbackOrder ==
  (Ended /\ ~IsUrl(query)) =>
    /\ \A k \in 1..Len(invoked) : k <= 4 /\ invoked[k] = Chain[k]
    /\ \A k \in 1..4 :
         (Len(invoked) >= k) <=>
           (\A j \in 1..(k - 1) : Len(results) >= j /\ results[j] /= "ok")
    /\ \A j \in 1..Len(results) :
         results[j] /= "ok" => Contains(printed, FailureLines[j])

\* C4: a tool that is absent from PATH makes that provider's attempt fail
\* without ending the program, and for a search query the next provider is
\* still called.
C4_AbsentToolDoesNotCrash ==
  \A j \in 1..Len(results) :
    results[j] = "absent" =>
      /\ pc /= "exited"
      /\ raised.err /= "SystemExit"
      /\ (Ended /\ ~IsUrl(query) /\ j < 4) => Len(invoked) > j

\* C5: a search query that ends in failure ends in an aggregate failure: all
\* four providers were called and failed, and the report names the four of
\* them in priority order.
C5_SearchFailureIsAggregate ==
  (Ended /\ ~IsUrl(query) /\ ~Succeeded) =>
    /\ invoked = Chain
    /\ Len(results) = 4
    /\ SelectSeq(printed, LAMBDA m : \E k \in 1..4 : m = FailureLines[k])
         = FailureLines

\* C6: an entry whose processing has ended has exactly one of two outcomes
\* the caller can tell apart: process_entry returned, and then a provider
\* succeeded and nothing was raised; or an exception or exit left
\* process_entry, and then no provider succeeded.
C6_ExactlyOneOutcome ==
  Ended =>
    \/ /\ outcome = "returned"
       /\ raised = NoErr
       /\ Succeeded
       /\ pc \in {"for", "done"}
    \/ /\ outcome \in {"raised", "exit"}
       /\ raised /= NoErr
       /\ ~Succeeded
       /\ pc \in {"crashed", "exited"}

C6_Witness ==
  /\ Ended
  /\ outcome = "returned"
  /\ invoked = <<"DirectHttp">>
  /\ mp3_file /= NoPath

\* C7: within one entry no provider is called twice, whether or not it
\* failed and however often robust_get retried inside it.
C7_EachProviderAtMostOnce ==
  \A i, j \in 1..Len(invoked) : invoked[i] = invoked[j] => i = j

C7_Witness ==
  /\ Ended
  /\ invoked = <<"Tidal">>
  /\ results = <<"failed">>
  /\ pc = "crashed"

\* 2^n
RECURSIVE Pow2(_)
Pow2(n) == IF n = 0 THEN 1 ELSE 2 * Pow2(n - 1)

\* k answers 429 followed by one answer 200
RateLimitedThenOk(k) == [i \in 1..(k + 1) |-> IF i <= k THEN 429 ELSE 200]

\* C8: when requests.get answers 429 k times and then 200, robust_get
\* returns at attempt k+1, having slept 1, 2, 4, ..., 2^(k-1) seconds.
C8_BackoffDoublesFromOne ==
  \A k \in 0..(MaxAttempts - 1) :
    responses = RateLimitedThenOk(k) =>
      /\ pc /= "robust_get"
      /\ attempts = k + 1
      /\ sleeps = [i \in 1..k |-> Pow2(i - 1)]

C8_Witness ==
  /\ responses = RateLimitedThenOk(2)
  /\ pc = "download_direct"
  /\ sleeps = <<1, 2>>

\* C9: a status that is neither 2xx nor 429 ends robust_get on that attempt:
\* no sleep follows it and no further request is issued.
C9_ErrorStatusReturns ==
  \A i \in 1..Len(responses) :
    (responses[i] >= 300 /\ responses[i] /= 429) =>
      /\ i = Len(responses)
      /\ pc /= "robust_get"
      /\ Len(sleeps) < i

Transient(r) == r = 429 \/ r = TransportError

\* C10: every 429 and every transport error is followed by a sleep and by a
\* further attempt (made, or still to be made by the running loop); the
\* direct download gets past robust_get, and so ends, only after an answer
\* that is not a transient failure.
C10_NeverGivesUpOnTransient ==
  /\ \A i \in 1..Len(responses) :
       Transient(responses[i]) =>
         /\ Len(sleeps) >= i
         /\ i < Len(responses) \/ pc = "robust_get"
  /\ (idx > 0 /\ invoked = <<"DirectHttp">> /\ pc /= "robust_get") =>
       /\ responses /= <<>>
       /\ ~Transient(responses[Len(responses)])
       /\ raised.by \in {"none", "download_direct", "convert_to_mp3"}

C10_Witness ==
  /\ pc = "robust_get"
  /\ responses = <<429, TransportError, 429>>
  /\ sleeps = <<1, 2, 4>>
  /\ outcome = "none"

\* the direct branch got its file: download_direct has returned
Downloaded == idx > 0 /\ invoked = <<"DirectHttp">> /\ downloaded_file /= NoPath

\* the last token of a path
LastTok(path) == path[Len(path)]

\* C11 as claimed: ffmpeg is never run when the downloaded name ends with
\* .mp3 exactly, and is run exactly once, with an output of the same base
\* name and the extension .mp3, when the name ends with anything else.
C11_ConvertUnlessDotMp3 ==
  (Downloaded /\ Ended) =>
    IF LastTok(downloaded_file) = ".mp3"
      THEN converts = <<>>
      ELSE Len(converts) = 1

\* C11 as amended: the extension is compared without regard to letter case.
\* ffmpeg is never run when the lower-cased name ends with .mp3 and the
\* entry then returns with the file as downloaded; otherwise ffmpeg is run
\* exactly once, on the downloaded file, with an output path in the same
\* directory whose name is the input's name with its extension replaced by
\* .mp3.
C11_ConvertUnlessMp3AnyCase ==
  /\ Len(converts) <= 1
  /\ (Downloaded /\ Ended) =>
       IF LastTok(downloaded_file) \in {".mp3", ".MP3"}
         THEN /\ converts = <<>>
              /\ mp3_file = NoPath
              /\ outcome = "returned"
         ELSE /\ Len(converts) = 1
              /\ converts[1][1] = downloaded_file
              /\ LastTok(converts[1][2]) = ".mp3"
              /\ LET in == converts[1][1]
                     out == converts[1][2]
                     stem == SubSeq(out, 1, Len(out) - 1)
                 IN IF IsExt(LastTok(in)) /\ ~EndsWithSlash(in[Len(in) - 1])
                      THEN /\ Len(in) = Len(out)
                           /\ SubSeq(in, 1, Len(in) - 1) = stem
                      ELSE in = stem

C11_Witness ==
  /\ Downloaded
  /\ Ended
  /\ LastTok(downloaded_file) = ".MP3"
  /\ converts = <<>>

\* C12: when ffmpeg exits with a non-zero status the entry ends in failure:
\* ffmpeg has run once and is not run again, no provider other than the
\* direct one has been called, and nothing is returned.
C12_ConversionFailureIsTerminal ==
  (converts /= <<>> /\ results /= <<>> /\ results[Len(results)] = "failed") =>
    /\ Len(converts) = 1
    /\ invoked = <<"DirectHttp">>
    /\ results = <<"failed">>
    /\ outcome = "raised"
    /\ pc = "crashed"
    /\ raised = [by |-> "convert_to_mp3", err |-> "Exception"]
    /\ mp3_file = NoPath

C12_Witness ==
  /\ raised.by = "convert_to_mp3"
  /\ Len(converts) = 1
  /\ pc = "crashed"

\* C13: the file is written to the destination joined with the text after
\* the last slash of the URL, or with downloaded_file when that text is
\* empty; when the text is name.ext and a conversion produced a file, that
\* file is the destination joined with name.mp3.
C13_DirectPaths ==
  Downloaded =>
    /\ \E cut \in 1..Len(query) :
         /\ EndsWithSlash(query[cut])
         /\ \A j \in (cut + 1)..Len(query) : ~EndsWithSlash(query[j])
         /\ LET seg == SubSeq(query, cut + 1, Len(query)) IN
            /\ downloaded_file =
                 output_directory \o <<"/">> \o
                   (IF seg = <<>> THEN <<"downloaded_file">> ELSE seg)
            /\ (mp3_file /= NoPath /\ Len(seg) >= 2 /\ IsExt(LastTok(seg))) =>
                 mp3_file =
                   output_directory \o <<"/">> \o
                     SubSeq(seg, 1, Len(seg) - 1) \o <<".mp3">>
    /\ (/\ query = <<"https://", "example.com", "/", "audio", "/", "talk42", ".wav">>
        /\ output_directory = <<"/tmp/out">>) =>
         /\ downloaded_file = <<"/tmp/out", "/", "talk42", ".wav">>
         /\ mp3_file \in {NoPath, <<"/tmp/out", "/", "talk42", ".mp3">>}

C13_Witness ==
  /\ query = <<"https://", "example.com", "/", "audio", "/", "talk42", ".wav">>
  /\ downloaded_file = <<"/tmp/out", "/", "talk42", ".wav">>
  /\ mp3_file = <<"/tmp/out", "/", "talk42", ".mp3">>
  /\ outcome = "returned"

\* the tokens of a string
Toks(q) == {q[k] : k \in 1..Len(q)}

Domains == {"spotify.com", "tidal.com", "youtube.com", "youtu.be"}

\* C15: the branch process_entry takes depends on the entry alone: a URL
\* branch if and only if the entry begins with http:// or https://, the
\* direct branch for a URL with no provider substring, the search branch for
\* everything else, and the same branch for equal entries.
C15_ClassificationIsAFunctionOfTheInput ==
  /\ \A i \in 1..Len(branches) :
       LET q == queries[i] IN
       /\ branches[i] \in {"Spotify", "Tidal", "YouTube", "DirectHttp", "search"}
       /\ (branches[i] /= "search") <=> (q /= <<>> /\ q[1] \in {"http://", "https://"})
       /\ (branches[i] /= "search" /\ Toks(q) \cap Domains = {}) =>
            branches[i] = "DirectHttp"
  /\ \A i, j \in 1..Len(branches) :
       queries[i] = queries[j] => branches[i] = branches[j]
  /\ idx > 0 =>
       IF branches[idx] = "search"
         THEN invoked = <<>> /\ raised.err = "TypeError"
         ELSE invoked = <<branches[idx]>>

C15_Witness ==
  /\ queries = << <<"https://", "example.com", "/">>, <<"spotify.com", "/", "track">> >>
  /\ branches = <<"DirectHttp", "search">>

\* C16: within a fetch the backoff is a power of two, at least 1, doubled
\* after every sleep whatever caused it, so that the sleeps are 1, 2, 4, ...
\* in one sequence; it never shrinks while the fetch runs, and a fetch starts
\* at 1 whatever the fetch before it left.
C16_BackoffIsLocalAndDoubles ==
  /\ [](/\ backoff >= 1
        /\ backoff = Pow2(Len(sleeps))
        /\ \A i \in 1..Len(sleeps) : sleeps[i] = Pow2(i - 1)
        /\ \A i \in 1..Len(responses) :
             responses[i] \in {429, TransportError} => i <= Len(sleeps))
  /\ [][/\ (pc' = "robust_get" /\ attempts' = 0) => (backoff' = 1 /\ sleeps' = <<>>)
        /\ (pc = "robust_get" /\ attempts' = attempts + 1) =>
             (backoff' = backoff \/ backoff' = 2 * backoff)
        /\ (pc = "robust_get" /\ pc' = "robust_get") =>
             (backoff' = 2 * backoff /\ sleeps' = Append(sleeps, backoff))]_vars

C16_Witness ==
  /\ pc = "for"
  /\ idx = 1
  /\ Len(queries) >= 2
  /\ UrlProvider(queries[2]) = "DirectHttp" /\ IsUrl(queries[2])
  /\ outcome = "returned"
  /\ responses = <<429, TransportError, 200>>
  /\ backoff = 4

\* C17: for a URL the provider is chosen by precedence, spotify.com before
\* tidal.com before youtube.com / youtu.be before direct HTTP, wherever in
\* the URL the substring stands, and that provider's adapter is the one
\* called.
C17_UrlPrecedence ==
  (idx > 0 /\ query /= <<>> /\ query[1] \in {"http://", "https://"}) =>
    /\ Len(invoked) = 1
    /\ "spotify.com" \in Toks(query) => invoked[1] = "Spotify"
    /\ ("tidal.com" \in Toks(query) /\ "spotify.com" \notin Toks(query)) =>
         invoked[1] = "Tidal"
    /\ (/\ Toks(query) \cap {"youtube.com", "youtu.be"} /= {}
        /\ Toks(query) \cap {"spotify.com", "tidal.com"} = {}) =>
         invoked[1] = "YouTube"
    /\ Toks(query) \cap Domains = {} => invoked[1] = "DirectHttp"
    /\ pc \in {"download_from_spotify", "download_from_tidal",
               "download_from_youtube", "robust_get", "download_direct",
               "convert_to_mp3"} =>
         pc = CASE invoked[1] = "Spotify" -> "download_from_spotify"
                [] invoked[1] = "Tidal" -> "download_from_tidal"
                [] invoked[1] = "YouTube" -> "download_from_youtube"
                [] OTHER -> pc

C17_Witness ==
  /\ query = <<"https://", "tidal.com", "/", "spotify.com">>
  /\ invoked = <<"Spotify">>
  /\ pc = "download_from_spotify"

Terminators == {Blank, <<"quit">>, <<"QUIT">>}

\* C18: entries are collected before any is processed, until the first
\* blank or quit entry in any letter case; they are then processed one at a
\* time in the order entered, and an entry is started only when the one
\* before it returned: after an error or an exit no entry is processed.
C18_CollectThenProcessInOrder ==
  /\ [](/\ pc \in {"check_ffmpeg", "read_directory", "collect"} =>
             (idx = 0 /\ branches = <<>> /\ invoked = <<>> /\ attempts = 0)
        /\ pc = "collect" => (entry = NoEntry /\ queries = <<>>)
                             \/ (queries /= <<>> /\ entry = queries[Len(queries)])
        /\ pc \in {"for", "done"} => entry \in Terminators
        /\ \A i \in 1..Len(queries) : queries[i] \notin Terminators
        /\ idx > 0 => query = queries[idx]
        /\ pc \in {"crashed", "exited"} /\ idx > 0 => outcome \in {"raised", "exit"})
  /\ [][/\ queries' /= queries => pc = "collect"
        /\ idx' /= idx =>
             /\ idx' = idx + 1
             /\ pc = "for"
             /\ idx > 0 => outcome = "returned"
        /\ outcome \in {"raised", "exit"} => idx' = idx]_vars

C18_Witness ==
  /\ pc = "crashed"
  /\ idx = 1
  /\ Len(queries) = 2
  /\ entry = <<"QUIT">>

\* C19: when ffmpeg is not on PATH the program exits before it reads
\* anything: no directory, no entry, no provider, no fetch, no conversion.
C19_FfmpegCheckGatesTheRun ==
  raised.by = "check_ffmpeg_installed" =>
    /\ pc = "exited"
    /\ raised.err = "SystemExit"
    /\ output_directory = Blank
    /\ entry = NoEntry
    /\ queries = <<>>
    /\ idx = 0
    /\ invoked = <<>>
    /\ attempts = 0
    /\ converts = <<>>

C19_Witness ==
  /\ pc = "exited"
  /\ raised.by = "check_ffmpeg_installed"
  /\ printed = <<"Error: FFmpeg is not installed">>

====
